---- MODULE Spec2Model ----
(***************************************************************************)
(* The POST /api/review handler (routes/review.js) of the AI code editor   *)
(* backend: request validation, prompt construction, the single upstream   *)
(* model call, and the normalisation of the model's reply text.            *)
(*                                                                         *)
(* Texts are sequences of characters.  A character is a one-character      *)
(* string, except the backtick, which is written "BT".  The alphabet has   *)
(* no backslash, so JSON string escapes do not arise in the modelled       *)
(* texts.                                                                  *)
(***************************************************************************)
EXTENDS Integers, Sequences, FiniteSets, TLC

BT == "BT"
NL == "\n"
QT == "\""

\* ------------------------------------------------------------------------
\* String primitives of the JavaScript runtime used by the handler
\* ------------------------------------------------------------------------

\* White space removed by String.prototype.trim and skipped by JSON.parse
IsWs(c) == c \in {" ", NL, "\t", "\r"}

\* \w of the regular expressions: [A-Za-z0-9_]
WordChars ==
  {"a","b","c","d","e","f","g","h","i","j","k","l","m","n","o","p","q","r",
   "s","t","u","v","w","x","y","z",
   "A","B","C","D","E","F","G","H","I","J","K","L","M","N","O","P","Q","R",
   "S","T","U","V","W","X","Y","Z",
   "0","1","2","3","4","5","6","7","8","9","_"}

IsWord(c) == c \in WordChars

\* Case folding of the i flag, for the letters of the tag json
ToLower(c) ==
  CASE c = "J" -> "j" [] c = "S" -> "s" [] c = "O" -> "o" [] c = "N" -> "n"
    [] OTHER -> c

\* s from index i to its end
Drop(s, i) == SubSeq(s, i, Len(s))

\* Index of the first character of s at or after i that is not white
\* space, Len(s) + 1 when none
FirstNonWs(s, i) ==
  IF \E k \in i .. Len(s) : ~IsWs(s[k])
  THEN CHOOSE k \in i .. Len(s) :
         ~IsWs(s[k]) /\ \A j \in i .. (k - 1) : IsWs(s[j])
  ELSE Len(s) + 1

\* Index of the last character of s at or before j that is not white
\* space, 0 when none (d counts back from j)
LastNonWs(s, j) ==
  IF \E d \in 1 .. j : ~IsWs(s[j + 1 - d])
  THEN j + 1 - (CHOOSE d \in 1 .. j :
                  ~IsWs(s[j + 1 - d])
                    /\ \A e \in 1 .. (d - 1) : IsWs(s[j + 1 - e]))
  ELSE 0

\* String.prototype.trim
Trim(s) == SubSeq(s, FirstNonWs(s, 1), LastNonWs(s, Len(s)))

\* Three backticks at index i of s
FenceAt(s, i) ==
  /\ i >= 1
  /\ i + 2 <= Len(s)
  /\ s[i] = BT /\ s[i + 1] = BT /\ s[i + 2] = BT

\* Three backticks and the tag json in any case at index i of s
JsonFenceAt(s, i) ==
  /\ FenceAt(s, i)
  /\ i + 6 <= Len(s)
  /\ ToLower(s[i + 3]) = "j" /\ ToLower(s[i + 4]) = "s"
  /\ ToLower(s[i + 5]) = "o" /\ ToLower(s[i + 6]) = "n"

\* 1 when s has a line feed at index i (the \n? of the patterns), else 0
OptNl(s, i) == IF i <= Len(s) /\ s[i] = NL THEN 1 ELSE 0

\* Length of the longest run of \w characters of s starting at index i
WordRun(s, i) ==
  IF \E k \in i .. Len(s) : ~IsWord(s[k])
  THEN (CHOOSE k \in i .. Len(s) :
          ~IsWord(s[k]) /\ \A j \in i .. (k - 1) : IsWord(s[j])) - i
  ELSE IF i > Len(s) THEN 0 ELSE Len(s) + 1 - i

\* Index of the first three-backtick run of s at or after i, 0 when none
FirstFenceFrom(s, i) ==
  IF \E k \in i .. (Len(s) - 2) : FenceAt(s, k)
  THEN CHOOSE k \in i .. (Len(s) - 2) :
         FenceAt(s, k) /\ \A j \in i .. (k - 1) : ~FenceAt(s, j)
  ELSE 0

\* Index of the first three-backtick run tagged json at or after i, 0 when
\* none
FirstJsonFenceFrom(s, i) ==
  IF \E k \in i .. (Len(s) - 6) : JsonFenceAt(s, k)
  THEN CHOOSE k \in i .. (Len(s) - 6) :
         JsonFenceAt(s, k) /\ \A j \in i .. (k - 1) : ~JsonFenceAt(s, j)
  ELSE 0

\* The global replacements scan s from the left: the text before the next
\* match is kept, the match is dropped, and the scan goes on after it.

RECURSIVE StripJsonFenceFrom(_, _)
StripJsonFenceFrom(s, i) ==
  LET k == FirstJsonFenceFrom(s, i)
  IN  IF k = 0 THEN Drop(s, i)
      ELSE SubSeq(s, i, k - 1)
             \o StripJsonFenceFrom(s, k + 7 + OptNl(s, k + 7))

\* s.replace(/```json\n?/gi, '')
StripJsonFence(s) == StripJsonFenceFrom(s, 1)

RECURSIVE StripFenceNlFrom(_, _)
StripFenceNlFrom(s, i) ==
  LET k == FirstFenceFrom(s, i)
  IN  IF k = 0 THEN Drop(s, i)
      ELSE SubSeq(s, i, k - 1)
             \o StripFenceNlFrom(s, k + 3 + OptNl(s, k + 3))

\* s.replace(/```\n?/g, '')
StripFenceNl(s) == StripFenceNlFrom(s, 1)

RECURSIVE StripTaggedFenceFrom(_, _)
StripTaggedFenceFrom(s, i) ==
  LET k == FirstFenceFrom(s, i)
      w == WordRun(s, k + 3)
  IN  IF k = 0 THEN Drop(s, i)
      ELSE SubSeq(s, i, k - 1)
             \o StripTaggedFenceFrom(s, k + 3 + w + OptNl(s, k + 3 + w))

\* s.replace(/```\w*\n?/g, '')
StripTaggedFence(s) == StripTaggedFenceFrom(s, 1)

RECURSIVE StripFenceFrom(_, _)
StripFenceFrom(s, i) ==
  LET k == FirstFenceFrom(s, i)
  IN  IF k = 0 THEN Drop(s, i)
      ELSE SubSeq(s, i, k - 1) \o StripFenceFrom(s, k + 3)

\* s.replace(/```/g, '')
StripFence(s) == StripFenceFrom(s, 1)

\* Index of the first c of s, 0 when none
FirstChar(s, c) ==
  IF \E k \in 1 .. Len(s) : s[k] = c
  THEN CHOOSE k \in 1 .. Len(s) :
         s[k] = c /\ \A j \in 1 .. (k - 1) : s[j] # c
  ELSE 0

\* Index of the last c of s, 0 when none (d counts back from the end)
LastChar(s, c) ==
  LET n == Len(s)
  IN  IF \E d \in 1 .. n : s[n + 1 - d] = c
      THEN n + 1 - (CHOOSE d \in 1 .. n :
                      s[n + 1 - d] = c
                        /\ \A e \in 1 .. (d - 1) : s[n + 1 - e] # c)
      ELSE 0

\* s.match(/\{[\s\S]*\}/): the span from the first { to the last } of s,
\* as [found, text]
BraceMatch(s) ==
  LET i == FirstChar(s, "{")
      j == LastChar(s, "}")
  IN  IF i > 0 /\ j > i
      THEN [found |-> TRUE, text |-> SubSeq(s, i, j)]
      ELSE [found |-> FALSE, text |-> << >>]

\* Index of the last three-backtick run of s, 0 when none (d counts back
\* from the end)
LastFence(s) ==
  LET n == Len(s) - 2
  IN  IF \E d \in 1 .. n : FenceAt(s, n + 1 - d)
      THEN n + 1 - (CHOOSE d \in 1 .. n :
                      FenceAt(s, n + 1 - d)
                        /\ \A e \in 1 .. (d - 1) : ~FenceAt(s, n + 1 - e))
      ELSE 0

\* Fault variant of CodeMatch: the greedy pattern /```[\s\S]*```/, which
\* runs from the first fence to the last one
CodeMatchGreedy(s) ==
  LET i == FirstFenceFrom(s, 1)
      j == LastFence(s)
  IN  IF i > 0 /\ j >= i + 3
      THEN [found |-> TRUE, text |-> SubSeq(s, i, j + 2)]
      ELSE [found |-> FALSE, text |-> << >>]

\* s.match(/```[\s\S]*?```/): the span from the first fence of s to the
\* next fence after it, as [found, text]
CodeMatch(s) ==
  LET i == FirstFenceFrom(s, 1)
      j == IF i = 0 THEN 0 ELSE FirstFenceFrom(s, i + 3)
  IN  IF j > 0
      THEN [found |-> TRUE, text |-> SubSeq(s, i, j + 2)]
      ELSE [found |-> FALSE, text |-> << >>]

\* ------------------------------------------------------------------------
\* JSON values and JSON.parse
\* ------------------------------------------------------------------------

\* A decoded JSON value is [kind, chars, elems]: kind is "str", "num",
\* "lit", "arr" or "obj"; chars is the text of a string, number or literal;
\* elems is the sequence of [key, val] of an object in insertion order, or
\* of an array (with empty keys).
StrVal(cs) == [kind |-> "str", chars |-> cs, elems |-> << >>]
NumVal(cs) == [kind |-> "num", chars |-> cs, elems |-> << >>]
LitVal(cs) == [kind |-> "lit", chars |-> cs, elems |-> << >>]
ArrVal(es) == [kind |-> "arr", chars |-> << >>, elems |-> es]
ObjVal(es) == [kind |-> "obj", chars |-> << >>, elems |-> es]

\* The value of a JavaScript variable that was never assigned
Undefined == [kind |-> "undefined", chars |-> << >>, elems |-> << >>]

\* Result of a parsing step: the value read and the index after it
ParseOk(v, n) == [ok |-> TRUE, val |-> v, next |-> n]
ParseFail == [ok |-> FALSE, val |-> Undefined, next |-> 0]

Digits == {"0","1","2","3","4","5","6","7","8","9"}

IsDigitAt(s, i) == i <= Len(s) /\ s[i] \in Digits

\* Length of the longest run of digits of s starting at index i
DigitRun(s, i) ==
  IF \E k \in i .. Len(s) : s[k] \notin Digits
  THEN (CHOOSE k \in i .. Len(s) :
          s[k] \notin Digits /\ \A j \in i .. (k - 1) : s[j] \in Digits) - i
  ELSE IF i > Len(s) THEN 0 ELSE Len(s) + 1 - i

\* Index of the quote closing the JSON string whose text starts at i; 0
\* when the string is unterminated or holds a raw control character
StringEnd(s, i) ==
  LET stops == {QT, NL, "\t", "\r"}
  IN  IF \E k \in i .. Len(s) : s[k] \in stops
      THEN LET e == CHOOSE k \in i .. Len(s) :
                      s[k] \in stops /\ \A j \in i .. (k - 1) : s[j] \notin stops
           IN  IF s[e] = QT THEN e ELSE 0
      ELSE 0

\* A JSON string starting with its opening quote at i
ParseString(s, i) ==
  IF i > Len(s) \/ s[i] # QT THEN ParseFail
  ELSE LET e == StringEnd(s, i + 1)
       IN  IF e = 0 THEN ParseFail
           ELSE ParseOk(StrVal(SubSeq(s, i + 1, e - 1)), e + 1)

\* A JSON number starting at i: -? (0 | [1-9][0-9]*) (. [0-9]+)?
\* ([eE] [+-]? [0-9]+)?
ParseNumber(s, i) ==
  LET a == IF i <= Len(s) /\ s[i] = "-" THEN i + 1 ELSE i
      n == DigitRun(s, a)
      intOk == n >= 1 /\ (s[a] = "0" => n = 1)
      b == a + n
      hasFrac == b <= Len(s) /\ s[b] = "."
      f == IF hasFrac THEN DigitRun(s, b + 1) ELSE 0
      c == IF hasFrac THEN b + 1 + f ELSE b
      hasExp == c <= Len(s) /\ s[c] \in {"e", "E"}
      d == IF hasExp /\ c + 1 <= Len(s) /\ s[c + 1] \in {"+", "-"}
           THEN c + 2 ELSE c + 1
      x == IF hasExp THEN DigitRun(s, d) ELSE 0
      e == IF hasExp THEN d + x ELSE c
  IN  IF intOk /\ (hasFrac => f >= 1) /\ (hasExp => x >= 1)
      THEN ParseOk(NumVal(SubSeq(s, i, e - 1)), e)
      ELSE ParseFail

\* s has the characters of word w at index i
WordAt(s, i, w) ==
  /\ i + Len(w) - 1 <= Len(s)
  /\ SubSeq(s, i, i + Len(w) - 1) = w

\* One of the literals true, false, null at i
ParseLiteral(s, i) ==
  IF WordAt(s, i, <<"t","r","u","e">>)
  THEN ParseOk(LitVal(<<"t","r","u","e">>), i + 4)
  ELSE IF WordAt(s, i, <<"f","a","l","s","e">>)
  THEN ParseOk(LitVal(<<"f","a","l","s","e">>), i + 5)
  ELSE IF WordAt(s, i, <<"n","u","l","l">>)
  THEN ParseOk(LitVal(<<"n","u","l","l">>), i + 4)
  ELSE ParseFail

RECURSIVE KeyIndex(_, _, _)
\* Index in es of the member with key k at or after i, 0 when none
KeyIndex(es, k, i) ==
  IF i > Len(es) THEN 0
  ELSE IF es[i].key = k THEN i ELSE KeyIndex(es, k, i + 1)

\* Assignment of member k of an object: a repeated key keeps its place and
\* takes the later value
PutMember(es, k, v) ==
  LET p == KeyIndex(es, k, 1)
  IN  IF p = 0 THEN Append(es, [key |-> k, val |-> v])
      ELSE [es EXCEPT ![p] = [key |-> k, val |-> v]]

RECURSIVE ParseValue(_, _)
RECURSIVE ParseMembers(_, _, _)
RECURSIVE ParseElements(_, _, _)

\* The members of an object from the key expected at i, after acc
ParseMembers(s, i, acc) ==
  LET k == ParseString(s, FirstNonWs(s, i))
  IN  IF ~k.ok THEN ParseFail
      ELSE LET c == FirstNonWs(s, k.next)
           IN  IF c > Len(s) \/ s[c] # ":" THEN ParseFail
               ELSE LET v == ParseValue(s, c + 1)
                    IN  IF ~v.ok THEN ParseFail
                        ELSE LET n == FirstNonWs(s, v.next)
                                 es == PutMember(acc, k.val.chars, v.val)
                             IN  IF n > Len(s) THEN ParseFail
                                 ELSE IF s[n] = "}"
                                 THEN ParseOk(ObjVal(es), n + 1)
                                 ELSE IF s[n] = ","
                                 THEN ParseMembers(s, n + 1, es)
                                 ELSE ParseFail

\* The elements of an array from the value expected at i, after acc
ParseElements(s, i, acc) ==
  LET v == ParseValue(s, i)
  IN  IF ~v.ok THEN ParseFail
      ELSE LET n == FirstNonWs(s, v.next)
               es == Append(acc, [key |-> << >>, val |-> v.val])
           IN  IF n > Len(s) THEN ParseFail
               ELSE IF s[n] = "]" THEN ParseOk(ArrVal(es), n + 1)
               ELSE IF s[n] = "," THEN ParseElements(s, n + 1, es)
               ELSE ParseFail

\* A JSON value at i, after optional white space
ParseValue(s, i) ==
  LET p == FirstNonWs(s, i)
  IN  IF p > Len(s) THEN ParseFail
      ELSE IF s[p] = "{"
      THEN LET q == FirstNonWs(s, p + 1)
           IN  IF q <= Len(s) /\ s[q] = "}" THEN ParseOk(ObjVal(<< >>), q + 1)
               ELSE ParseMembers(s, p + 1, << >>)
      ELSE IF s[p] = "["
      THEN LET q == FirstNonWs(s, p + 1)
           IN  IF q <= Len(s) /\ s[q] = "]" THEN ParseOk(ArrVal(<< >>), q + 1)
               ELSE ParseElements(s, p + 1, << >>)
      ELSE IF s[p] = QT THEN ParseString(s, p)
      ELSE IF s[p] = "-" \/ s[p] \in Digits THEN ParseNumber(s, p)
      ELSE ParseLiteral(s, p)

\* The value v read from the start of s is the result when only white
\* space follows it
WholeText(s, v) ==
  IF v.ok /\ FirstNonWs(s, v.next) > Len(s)
  THEN [ok |-> TRUE, val |-> v.val]
  ELSE [ok |-> FALSE, val |-> Undefined]

\* JSON.parse(s): [ok, val]; ok is FALSE where JSON.parse throws a
\* SyntaxError
JsonParse(s) == WholeText(s, ParseValue(s, 1))

\* ------------------------------------------------------------------------
\* Normalisation of the reply text (lines 160-216 of the handler)
\* ------------------------------------------------------------------------

ValidModes == {"review", "fix", "optimize", "explain"}

\* Characters of the field names the recovery wraps its text in
FixedCodeKey == <<"f","i","x","e","d","C","o","d","e">>
OptimizedCodeKey == <<"o","p","t","i","m","i","z","e","d","C","o","d","e">>
ExplanationKey == <<"e","x","p","l","a","n","a","t","i","o","n">>

\* The object literal { key: text }
Wrapped(key, text) == ObjVal(<< [key |-> key, val |-> StrVal(text)] >>)

\* cleanedResponse as handed to JSON.parse: trimmed, both fence patterns
\* removed, trimmed again, then narrowed to the brace span when there is one
CleanedResponse(aiResponse) ==
  LET stripped == Trim(StripFenceNl(StripJsonFence(Trim(aiResponse))))
      jsonMatch == BraceMatch(stripped)
  IN  IF jsonMatch.found THEN jsonMatch.text ELSE stripped

\* The whole reply with both fence patterns removed and trimmed (the
\* explain recovery and the fix/optimize recovery without a code block)
StrippedResponse(aiResponse) ==
  Trim(StripFenceNl(StripJsonFence(aiResponse)))

\* The code of the first fenced block of the reply, or the whole stripped
\* reply when it has no closed block (the fix and optimize recovery)
ExtractCode(aiResponse) ==
  LET codeMatch == CodeMatch(aiResponse)
  IN  IF codeMatch.found
      THEN Trim(StripFence(StripTaggedFence(codeMatch.text)))
      ELSE StrippedResponse(aiResponse)

\* Fault variant of RawResponseOf: the trimmed text instead of the reply
RawResponseTrimmed(aiResponse) == Trim(aiResponse)

\* rawResponse of the 500 answer of review mode
RawResponseOf(aiResponse) == aiResponse

\* reviewData built by the catch (parseError) block for a mode that
\* recovers
RecoveredData(aiResponse, selectedMode) ==
  CASE selectedMode = "explain" ->
         Wrapped(ExplanationKey, StrippedResponse(aiResponse))
    [] selectedMode = "fix" ->
         Wrapped(FixedCodeKey, ExtractCode(aiResponse))
    [] selectedMode = "optimize" ->
         Wrapped(OptimizedCodeKey, ExtractCode(aiResponse))
    [] OTHER -> Undefined

\* Fault variant of RecoveringModes: the optimize branch of the catch block
\* left out
RecoveringModesWithoutOptimize == {"explain", "fix"}

\* Modes whose catch (parseError) block builds reviewData instead of
\* answering 500
RecoveringModes == {"explain", "fix", "optimize"}

\* The outcome of the try/catch given what JSON.parse did: status "ok"
\* when it returned, "recovered" when the catch block built reviewData,
\* "failed" when the catch block answered 500
TryCatch(parsed, aiResponse, selectedMode) ==
  IF parsed.ok
  THEN [status |-> "ok", data |-> parsed.val, raw |-> << >>]
  ELSE IF selectedMode \in RecoveringModes
  THEN [status |-> "recovered",
        data |-> RecoveredData(aiResponse, selectedMode), raw |-> << >>]
  ELSE [status |-> "failed", data |-> Undefined,
        raw |-> RawResponseOf(aiResponse)]

\* The try/catch around JSON.parse as a function of the reply text and the
\* mode
Normalize(aiResponse, selectedMode) ==
  TryCatch(JsonParse(CleanedResponse(aiResponse)), aiResponse, selectedMode)

\* ------------------------------------------------------------------------
\* Requests, upstream outcomes and responses
\* ------------------------------------------------------------------------

\* Number of requests that can be in flight together
NReq == 2

\* Longest reply text, in fragments
MaxFrags == 3

Reqs == 1 .. NReq

\* A field of req.body: left out of the body, or a string
AbsentField == [kind |-> "absent", str |-> ""]
StringField(s) == [kind |-> "string", str |-> s]

\* !v for a field of req.body
Falsy(v) == v.kind = "absent" \/ v.str = ""

CodeValues == {AbsentField, StringField(""), StringField("print('hi')")}
LanguageValues == {AbsentField, StringField(""), StringField("python")}
ModeValues ==
  {AbsentField, StringField(""), StringField("summarize")}
    \cup {StringField(m) : m \in ValidModes}

\* Request bodies of the single-request specification
Bodies == [code : CodeValues, language : LanguageValues, mode : ModeValues]

NoBody == [code |-> AbsentField, language |-> AbsentField,
           mode |-> AbsentField]

\* mode || 'review'
SelectedMode(mode) == IF Falsy(mode) THEN "review" ELSE mode.str

\* Fault variant of ValidationError: the validModes check left out
ValidationErrorNoModeCheck(b) ==
  IF Falsy(b.code) THEN "Code is required"
  ELSE IF Falsy(b.language) THEN "Programming language is required"
  ELSE ""

\* The error of the 400 answer of the input validation, "" when the body
\* passes
ValidationError(b) ==
  IF Falsy(b.code) THEN "Code is required"
  ELSE IF Falsy(b.language) THEN "Programming language is required"
  ELSE IF SelectedMode(b.mode) \notin ValidModes
  THEN "Invalid mode. Must be one of: review, fix, optimize, explain"
  ELSE ""

\* let prompt = ''
NoPrompt == [instruction |-> "", task |-> "", language |-> "", code |-> ""]

\* The prompt template of a mode with its holes filled: every prompt opens
\* with baseInstruction and embeds language and code
BuildPrompt(code, language, selectedMode) ==
  [instruction |-> "CRITICAL INSTRUCTION", task |-> selectedMode,
   language |-> language.str, code |-> code.str]

\* What the awaited fetch and response.json() produce: kind "reject" when
\* either promise rejects, else the status with the decoded body.  A body
\* is [shape, text]: "text" has candidates[0].content.parts[0].text,
\* "notext" has that part without a text, "nocandidates" has no
\* candidates, "envelope" is { error: { message } }, "bare" has no error
\* member.
NoOutcome == [kind |-> "none", status |-> 0,
              body |-> [shape |-> "none", text |-> << >>]]
Rejected == [kind |-> "reject", status |-> 0,
             body |-> [shape |-> "none", text |-> << >>]]
Replied(status, shape, text) ==
  [kind |-> "response", status |-> status,
   body |-> [shape |-> shape, text |-> text]]

\* response.ok
IsOk(status) == status >= 200 /\ status <= 299

\* A response of the handler.  Members the answer does not carry are "" or
\* Undefined; rawResponse is [present, text].
NoRaw == [present |-> FALSE, text |-> << >>]
Raw(t) == [present |-> TRUE, text |-> t]
NoDetails == [shape |-> "none", text |-> << >>]

Answer(status, success, error, mode, data, details, raw, parseError) ==
  [status |-> status, success |-> success, error |-> error, mode |-> mode,
   data |-> data, details |-> details, rawResponse |-> raw,
   parseError |-> parseError]

\* res.status(400).json({ success: false, error })
Answer400(error) ==
  Answer(400, FALSE, error, "", Undefined, NoDetails, NoRaw, "")

\* The outer catch: res.status(500).json({ success: false, error })
Answer500(error) ==
  Answer(500, FALSE, error, "", Undefined, NoDetails, NoRaw, "")

\* data.error?.message || 'AI API Error'
UpstreamErrorMessage(body) ==
  IF body.shape = "envelope" THEN "upstream message" ELSE "AI API Error"

\* Fault variant of UpstreamErrorAnswer: status 500 instead of the
\* upstream status
UpstreamErrorAnswerAs500(o) ==
  Answer(500, FALSE, UpstreamErrorMessage(o.body), "", Undefined,
         o.body, NoRaw, "")

\* The answer to a response that is not ok
UpstreamErrorAnswer(o) ==
  Answer(o.status, FALSE, UpstreamErrorMessage(o.body), "", Undefined,
         o.body, NoRaw, "")

\* The 500 answer of review mode when JSON.parse threw
ParseFailureAnswer(raw) ==
  Answer(500, FALSE, "Failed to parse AI response as JSON", "", Undefined,
         NoDetails, raw, "SyntaxError")

\* res.json({ success: true, mode, data })
SuccessAnswer(selectedMode, reviewData) ==
  Answer(200, TRUE, "", selectedMode, reviewData, NoDetails, NoRaw, "")

\* Fault variant of NormalizedAnswers: the return of the review branch left
\* out, so that res.json runs after the 500 answer
NormalizedAnswersNoReturn(n, selectedMode) ==
  IF n.status = "failed"
  THEN << ParseFailureAnswer(Raw(n.raw)), SuccessAnswer(selectedMode, n.data) >>
  ELSE << SuccessAnswer(selectedMode, n.data) >>

\* The responses sent once the try/catch ended with n: the 500 answer of
\* the catch block, or res.json with reviewData
NormalizedAnswers(n, selectedMode) ==
  IF n.status = "failed"
  THEN << ParseFailureAnswer(Raw(n.raw)) >>
  ELSE << SuccessAnswer(selectedMode, n.data) >>

\* The responses sent for a reply whose text is a string
TextAnswers(aiResponse, selectedMode) ==
  NormalizedAnswers(Normalize(aiResponse, selectedMode), selectedMode)

\* The responses sent by the handler after the awaited call settled with
\* outcome o, in the order sent (lines 146-229)
ResumeAnswers(o, selectedMode) ==
  IF o.kind = "reject" THEN << Answer500("fetch failed") >>
  ELSE IF ~IsOk(o.status) THEN << UpstreamErrorAnswer(o) >>
  ELSE IF o.body.shape = "text"
  THEN TextAnswers(o.body.text, selectedMode)
  ELSE IF o.body.shape = "notext" /\ selectedMode = "review"
  THEN << Answer(500, FALSE, "Failed to parse AI response as JSON", "",
                 Undefined, NoDetails, NoRaw, "TypeError") >>
  ELSE << Answer500("TypeError") >>
\* Three backticks
FragFence ==
  <<BT, BT, BT>>

\* The tag json
FragTag ==
  <<"j", "s", "o", "n">>

\* A line feed
FragNl ==
  <<NL>>

\* One character of code or prose
FragX ==
  <<"x">>

\* An opening brace
FragLb ==
  <<"{">>

\* A closing brace
FragRb ==
  <<"}">>

\* A digit
FragNum ==
  <<"7">>

\* Start of a fix object up to the text of fixedCode
FragFixOpen ==
  <<"{", QT, "f", "i", "x", "e", "d", "C", "o", "d", "e", QT, ":", QT>>

\* Start of an optimize object up to the text of optimizedCode
FragOptOpen ==
  <<"{", QT, "o", "p", "t", "i", "m", "i", "z", "e", "d", "C", "o", "d",
    "e", QT, ":", QT>>

\* Start of an explain object up to the text of explanation
FragExpOpen ==
  <<"{", QT, "e", "x", "p", "l", "a", "n", "a", "t", "i", "o", "n", QT,
    ":", QT>>

\* End of a one-field object
FragClose ==
  <<QT, "}">>

\* A complete review object with no issues
FragReview ==
  <<"{", QT, "s", "u", "m", "m", "a", "r", "y", QT, ":", QT, "x", QT, ",",
    QT, "i", "s", "s", "u", "e", "s", QT, ":", "[", "]", ",", QT, "s", "u",
    "g", "g", "e", "s", "t", "i", "o", "n", "s", QT, ":", "[", "]", ",",
    QT, "t", "i", "m", "e", "C", "o", "m", "p", "l", "e", "x", "i", "t",
    "y", QT, ":", QT, "x", QT, ",", QT, "s", "p", "a", "c", "e", "C", "o",
    "m", "p", "l", "e", "x", "i", "t", "y", QT, ":", QT, "x", QT, ",", QT,
    "r", "a", "t", "i", "n", "g", QT, ":", "7", "}">>

\* The fenced python block of the fix scenario
ReplyFencedPython ==
  <<BT, BT, BT, "p", "y", "t", "h", "o", "n", NL, "p", "r", "i", "n", "t",
    "(", "'", "h", "e", "l", "l", "o", "'", ")", NL, BT, BT, BT>>

\* A fix object inside a json fence
ReplyFencedJson ==
  <<BT, BT, BT, "j", "s", "o", "n", NL, "{", QT, "f", "i", "x", "e", "d",
    "C", "o", "d", "e", QT, ":", QT, "x", QT, "}", NL, BT, BT, BT>>

\* An explain object inside a fence tagged JSON in capitals
ReplyFencedUpper ==
  <<BT, BT, BT, "J", "S", "O", "N", NL, "{", QT, "e", "x", "p", "l", "a",
    "n", "a", "t", "i", "o", "n", QT, ":", QT, "x", QT, "}", NL, BT, BT, BT>>

\* A review object cut off inside its issues
ReplyTruncated ==
  <<"{", QT, "s", "u", "m", "m", "a", "r", "y", QT, ":", QT, "x", QT, ",",
    QT, "i", "s", "s", "u", "e", "s", QT, ":", "[">>

\* An explain object between two words of prose
ReplyEmbedded ==
  <<"o", "k", " ", "{", QT, "e", "x", "p", "l", "a", "n", "a", "t", "i",
    "o", "n", QT, ":", QT, "x", QT, "}", " ", "o", "k">>

\* Two fenced blocks
ReplyTwoBlocks ==
  <<BT, BT, BT, NL, "x", NL, BT, BT, BT, NL, "y", NL, BT, BT, BT, NL, "z",
    NL, BT, BT, BT>>

\* Prose, then a fenced block with a tag, then prose
ReplyInline ==
  <<"f", "i", "x", ":", NL, BT, BT, BT, "j", "s", NL, "x", " ", "=", " ",
    "1", NL, BT, BT, BT, NL, "o", "k">>

\* A bare JSON string
ReplyQuoted ==
  <<QT, "x", QT>>

\* ------------------------------------------------------------------------
\* Reply texts and upstream outcomes the environment can produce
\* ------------------------------------------------------------------------

Frags ==
  {FragFence, FragTag, FragNl, FragX, FragLb, FragRb, FragNum, FragFixOpen,
   FragOptOpen, FragExpOpen, FragClose, FragReview}

RECURSIVE Flatten(_)
\* The concatenation of a sequence of fragments
Flatten(fs) == IF fs = << >> THEN << >> ELSE Head(fs) \o Flatten(Tail(fs))

FragTexts ==
  {Flatten(fs) : fs \in UNION {[1 .. k -> Frags] : k \in 0 .. MaxFrags}}

ScenarioTexts ==
  {ReplyFencedPython, ReplyFencedJson, ReplyFencedUpper, ReplyTruncated,
   ReplyEmbedded, ReplyTwoBlocks, ReplyInline, ReplyQuoted}

\* Reply texts of the single-request specification
Texts == FragTexts \cup ScenarioTexts

ErrorStatuses == {400, 429, 503}

Outcomes ==
  {Rejected}
    \cup {Replied(s, sh, << >>) :
            s \in ErrorStatuses, sh \in {"envelope", "bare"}}
    \cup {Replied(200, sh, << >>) : sh \in {"notext", "nocandidates"}}
    \cup {Replied(200, "text", t) : t \in Texts}

\* Request bodies and outcomes of the concurrent specification
ConcBodies ==
  {[code |-> StringField("print('hi')"), language |-> StringField("python"),
    mode |-> StringField("fix")],
   [code |-> StringField("x = 1"), language |-> StringField("js"),
    mode |-> StringField("explain")],
   [code |-> StringField("x = 1"), language |-> StringField("python"),
    mode |-> AbsentField],
   [code |-> StringField("print('hi')"), language |-> AbsentField,
    mode |-> StringField("fix")]}

ConcOutcomes ==
  {Rejected, Replied(429, "envelope", << >>),
   Replied(200, "text", ReplyFencedPython),
   Replied(200, "text", ReplyTruncated),
   Replied(200, "text", FragExpOpen \o FragX \o FragClose)}

\* ------------------------------------------------------------------------
\* The handler as a state machine
\* ------------------------------------------------------------------------

VARIABLES
  pc,            \* per request: "idle", "await", "settled" or "done"
  body,          \* per request: req.body
  selectedMode,  \* per request: the local selectedMode, "" before line 30
  prompt,        \* per request: the prompt sent with the upstream call
  outcome,       \* per request: what the awaited upstream call produced
  responses,     \* per request: the responses sent, in order
  log            \* per request: "call" and "resp" events, in order

vars == <<pc, body, selectedMode, prompt, outcome, responses, log>>

Init ==
  /\ pc = [r \in Reqs |-> "idle"]
  /\ body = [r \in Reqs |-> NoBody]
  /\ selectedMode = [r \in Reqs |-> ""]
  /\ prompt = [r \in Reqs |-> NoPrompt]
  /\ outcome = [r \in Reqs |-> NoOutcome]
  /\ responses = [r \in Reqs |-> << >>]
  /\ log = [r \in Reqs |-> << >>]

\* Fault variant of LocalMode: selectedMode kept in one slot shared by all
\* requests
SharedMode(r) == selectedMode[1]

\* selectedMode as the continuation of request r reads it after the await
LocalMode(r) == selectedMode[r]

\* Request r arrives with body b: the handler runs from line 11 to the
\* first await, answering 400 or sending the upstream call
Handle(r, b) ==
  /\ pc[r] = "idle"
  /\ body' = [body EXCEPT ![r] = b]
  /\ selectedMode' =
       [selectedMode EXCEPT ![r] =
          IF Falsy(b.code) \/ Falsy(b.language) THEN ""
          ELSE SelectedMode(b.mode)]
  /\ IF ValidationError(b) # ""
     THEN /\ responses' = [responses EXCEPT
                             ![r] = << Answer400(ValidationError(b)) >>]
          /\ log' = [log EXCEPT ![r] = Append(@, "resp")]
          /\ pc' = [pc EXCEPT ![r] = "done"]
          /\ UNCHANGED prompt
     ELSE /\ prompt' = [prompt EXCEPT
                          ![r] = BuildPrompt(b.code, b.language,
                                             SelectedMode(b.mode))]
          /\ log' = [log EXCEPT ![r] = Append(@, "call")]
          /\ pc' = [pc EXCEPT ![r] = "await"]
          /\ UNCHANGED responses
  /\ UNCHANGED outcome

\* The upstream call of request r settles with outcome o
Settle(r, o) ==
  /\ pc[r] = "await"
  /\ outcome' = [outcome EXCEPT ![r] = o]
  /\ pc' = [pc EXCEPT ![r] = "settled"]
  /\ UNCHANGED <<body, selectedMode, prompt, responses, log>>

\* The handler of request r resumes after the await and runs to its end
Resume(r) ==
  /\ pc[r] = "settled"
  /\ responses' = [responses EXCEPT
                     ![r] = @ \o ResumeAnswers(outcome[r], LocalMode(r))]
  /\ log' = [log EXCEPT
               ![r] = @ \o [i \in 1 .. (Len(responses'[r]) - Len(responses[r]))
                              |-> "resp"]]
  /\ pc' = [pc EXCEPT ![r] = "done"]
  /\ UNCHANGED <<body, selectedMode, prompt, outcome>>

\* One request at a time, over every body and every reply text
Next ==
  \/ \E b \in Bodies : Handle(1, b)
  \/ \E o \in Outcomes : Settle(1, o)
  \/ Resume(1)

Spec == Init /\ [][Next]_vars

\* Several requests in flight, interleaved at the await
ConcNext ==
  \/ \E r \in Reqs, b \in ConcBodies : Handle(r, b)
  \/ \E r \in Reqs, o \in ConcOutcomes : Settle(r, o)
  \/ \E r \in Reqs : Resume(r)

ConcSpec == Init /\ [][ConcNext]_vars

\* ------------------------------------------------------------------------
\* Properties
\* ------------------------------------------------------------------------

\* Request r has been answered
Answered(r) == pc[r] = "done" /\ responses[r] # << >>

\* The first response sent to request r
TheAnswer(r) == responses[r][1]

\* The upstream call of request r replied 2xx with a reply text
GotText(r) ==
  /\ outcome[r].kind = "response"
  /\ IsOk(outcome[r].status)
  /\ outcome[r].body.shape = "text"

\* The reply text of the upstream call of request r
ReplyText(r) == outcome[r].body.text

\* A body field counts as missing when it is left out or empty, and as
\* given otherwise
Missing(v) == v.kind = "absent" \/ v.str = ""

\* The requests the validation is specified to reject
MustReject(b) ==
  \/ Missing(b.code)
  \/ Missing(b.language)
  \/ /\ ~Missing(b.mode)
     /\ b.mode.str \notin {"review", "fix", "optimize", "explain"}

\* The answer is a validation error: 400 with success false and an error
\* and nothing else
IsValidationAnswer(a) ==
  /\ a.status = 400 /\ a.success = FALSE /\ a.error # ""
  /\ a.data = Undefined /\ a.details = NoDetails /\ a.mode = ""
  /\ a.rawResponse = NoRaw /\ a.parseError = ""

\* C1: a request is answered 400 { success: false, error } exactly when its
\* code is missing, its language is missing, or its mode is given and is
\* not one of the four modes; a rejected request builds no prompt and makes
\* no upstream call; every other request makes the upstream call; a missing
\* language alone is answered 'Programming language is required'.
C1_ValidationGate ==
  \A r \in Reqs :
    pc[r] # "idle" =>
      /\ MustReject(body[r]) =>
           /\ pc[r] = "done"
           /\ Len(responses[r]) = 1
           /\ IsValidationAnswer(TheAnswer(r))
           /\ prompt[r] = NoPrompt
           /\ log[r] = << "resp" >>
      /\ ~MustReject(body[r]) =>
           /\ log[r][1] = "call"
           /\ prompt[r] # NoPrompt
           /\ \A i \in 1 .. Len(responses[r]) :
                ~IsValidationAnswer(responses[r][i])
      /\ (~Missing(body[r].code) /\ Missing(body[r].language)) =>
           TheAnswer(r).error = "Programming language is required"

\* C1 witness: a request with code, language and the mode summarize was
\* answered 400 without an upstream call
C1_Witness ==
  \E r \in Reqs :
    /\ Answered(r)
    /\ body[r].mode = StringField("summarize")
    /\ ~Missing(body[r].code) /\ ~Missing(body[r].language)
    /\ TheAnswer(r).status = 400
    /\ log[r] = << "resp" >>

\* C2: in the modes explain, fix and optimize every reply text is answered
\* 200 with success true, the mode and a data value, never 500.
C2_RecoveringModesNeverFail ==
  \A r \in Reqs :
    (pc[r] = "done" /\ GotText(r)
       /\ selectedMode[r] \in {"explain", "fix", "optimize"}) =>
      /\ Len(responses[r]) = 1
      /\ TheAnswer(r).status = 200
      /\ TheAnswer(r).success = TRUE
      /\ TheAnswer(r).mode = selectedMode[r]
      /\ TheAnswer(r).data # Undefined
      /\ TheAnswer(r).error = "" /\ TheAnswer(r).parseError = ""

\* C2 witness: a reply with an unbalanced brace was answered 200 in
\* optimize mode
C2_Witness ==
  \E r \in Reqs :
    /\ Answered(r) /\ GotText(r)
    /\ selectedMode[r] = "optimize"
    /\ ReplyText(r) = FragLb \o FragX
    /\ TheAnswer(r).status = 200

\* C3: in review mode a reply text that JSON.parse rejects after fence
\* stripping and brace-span extraction is answered 500 with success false,
\* a parse error, and the reply text itself as rawResponse; no data is
\* returned.
C3_ReviewFailureIsVerbatim ==
  \A r \in Reqs :
    (pc[r] = "done" /\ GotText(r) /\ selectedMode[r] = "review"
       /\ ~JsonParse(CleanedResponse(ReplyText(r))).ok) =>
      /\ Len(responses[r]) = 1
      /\ TheAnswer(r).status = 500
      /\ TheAnswer(r).success = FALSE
      /\ TheAnswer(r).error # ""
      /\ TheAnswer(r).parseError # ""
      /\ TheAnswer(r).rawResponse = Raw(ReplyText(r))
      /\ TheAnswer(r).data = Undefined

\* C3 witness: a review reply that trimming would change, and that does
\* not parse, was answered 500
C3_Witness ==
  \E r \in Reqs :
    /\ Answered(r) /\ GotText(r)
    /\ selectedMode[r] = "review"
    /\ ReplyText(r) = FragNl \o FragLb \o FragNl
    /\ Trim(ReplyText(r)) # ReplyText(r)
    /\ TheAnswer(r).status = 500

\* The field names of a ReviewResult
SummaryKey == <<"s", "u", "m", "m", "a", "r", "y">>
IssuesKey == <<"i", "s", "s", "u", "e", "s">>
SuggestionsKey == <<"s", "u", "g", "g", "e", "s", "t", "i", "o", "n", "s">>
TimeComplexityKey ==
  <<"t", "i", "m", "e", "C", "o", "m", "p", "l", "e", "x", "i", "t", "y">>
SpaceComplexityKey ==
  <<"s", "p", "a", "c", "e", "C", "o", "m", "p", "l", "e", "x", "i", "t", "y">>
RatingKey == <<"r", "a", "t", "i", "n", "g">>

ReviewKeys ==
  {SummaryKey, IssuesKey, SuggestionsKey, TimeComplexityKey,
   SpaceComplexityKey, RatingKey}

\* The keys of an object value
KeysOf(v) == {v.elems[i].key : i \in 1 .. Len(v.elems)}

\* The value of member k of an object value that has it
Member(v, k) == v.elems[KeyIndex(v.elems, k, 1)].val

\* v is an object with the one member k, a string
IsOneStringField(v, k) ==
  /\ v.kind = "obj"
  /\ Len(v.elems) = 1
  /\ v.elems[1].key = k
  /\ v.elems[1].val.kind = "str"

\* The field that carries the text of a one-field mode
KeyOfMode(mode) ==
  CASE mode = "fix" -> FixedCodeKey
    [] mode = "optimize" -> OptimizedCodeKey
    [] OTHER -> ExplanationKey

\* v has the shape of the result of the mode: a CodeResult, an
\* ExplanationResult or a ReviewResult
SchemaOk(v, mode) ==
  IF mode = "review"
  THEN /\ v.kind = "obj"
       /\ KeysOf(v) = ReviewKeys
       /\ Member(v, SummaryKey).kind = "str"
       /\ Member(v, IssuesKey).kind = "arr"
       /\ Member(v, SuggestionsKey).kind = "arr"
       /\ Member(v, TimeComplexityKey).kind = "str"
       /\ Member(v, SpaceComplexityKey).kind = "str"
       /\ Member(v, RatingKey).kind = "num"
  ELSE IsOneStringField(v, KeyOfMode(mode))

\* C4: a reply text that is exactly valid JSON for the schema of the mode
\* is answered 200 with data equal to the plain JSON decoding of the text.
C4_CleanJsonIsDecodedAsIs ==
  \A r \in Reqs :
    (pc[r] = "done" /\ GotText(r) /\ JsonParse(ReplyText(r)).ok
       /\ SchemaOk(JsonParse(ReplyText(r)).val, selectedMode[r])) =>
      /\ Len(responses[r]) = 1
      /\ TheAnswer(r).status = 200
      /\ TheAnswer(r).data = JsonParse(ReplyText(r)).val

\* t inside a fence tagged json
WrapJson(t) == FragFence \o FragTag \o FragNl \o t \o FragNl \o FragFence

\* C5: normalising a reply text and normalising the same text inside a
\* json fence give the same status and the same data, in every mode.
C5_FenceWrappingIsStable ==
  \A r \in Reqs :
    (pc[r] = "done" /\ GotText(r)) =>
      LET plain == Normalize(ReplyText(r), selectedMode[r])
          fenced == Normalize(WrapJson(ReplyText(r)), selectedMode[r])
      IN  /\ fenced.status = plain.status
          /\ fenced.data = TheAnswer(r).data

VariantOf(data, mode) ==
  /\ data.kind = "obj"
  /\ CASE mode = "fix" -> KeysOf(data) = {FixedCodeKey}
       [] mode = "optimize" -> KeysOf(data) = {OptimizedCodeKey}
       [] mode = "explain" ->
            /\ ExplanationKey \in KeysOf(data)
            /\ KeysOf(data) \cap ({FixedCodeKey, OptimizedCodeKey}
                                    \cup ReviewKeys) = {}
       [] OTHER ->
            /\ ReviewKeys \subseteq KeysOf(data)
            /\ KeysOf(data) \cap {FixedCodeKey, OptimizedCodeKey,
                                  ExplanationKey} = {}

\* C7: the data of every 200 answer is the variant of its mode.
C7_DataIsVariantOfMode ==
  \A r \in Reqs :
    (pc[r] = "done" /\ Len(responses[r]) >= 1
       /\ TheAnswer(r).status = 200) =>
      VariantOf(TheAnswer(r).data, TheAnswer(r).mode)

\* The text of the first fenced block of t between its fences, as [found,
\* text]: the block opens at the first fence and closes at the next one
FirstBlockInner(t) ==
  LET open == FirstFenceFrom(t, 1)
      close == IF open = 0 THEN 0 ELSE FirstFenceFrom(t, open + 3)
  IN  IF close > 0
      THEN [found |-> TRUE, text |-> SubSeq(t, open + 3, close - 1)]
      ELSE [found |-> FALSE, text |-> << >>]

\* s without the language tag (the word right after the opening fence) and
\* the line feed that ends the fence line
AfterTag(s) ==
  LET body0 == Drop(s, WordRun(s, 1) + 1)
  IN  IF body0 # << >> /\ Head(body0) = NL THEN Tail(body0) ELSE body0

\* t, which has no closed block, without its fence marker: the fence, the
\* tag json after it, and the line feed that ends the fence line
WithoutMarker(t) ==
  LET open == FirstFenceFrom(t, 1)
      rest == Drop(t, open + 3)
      untagged == IF Len(rest) >= 4
                       /\ [i \in 1 .. 4 |-> ToLower(rest[i])] = FragTag
                  THEN Drop(rest, 5) ELSE rest
      unlined == IF untagged # << >> /\ Head(untagged) = NL
                 THEN Tail(untagged) ELSE untagged
  IN  IF open = 0 THEN t ELSE SubSeq(t, 1, open - 1) \o unlined

\* The code field the fix and optimize recovery is specified to return
SpecifiedCode(t) ==
  IF FirstBlockInner(t).found
  THEN Trim(AfterTag(FirstBlockInner(t).text))
  ELSE Trim(WithoutMarker(t))

\* print('hello')
HelloCode ==
  <<"p", "r", "i", "n", "t", "(", "'", "h", "e", "l", "l", "o", "'", ")">>

\* C9: when JSON.parse rejects a reply in fix or optimize mode, the data is
\* the one field fixedCode or optimizedCode holding the inner text of the
\* first fenced block without fence markers and language tag, trimmed, or,
\* without a closed block, the whole reply without fence markers, trimmed;
\* the fenced python reply of the scenario gives fixedCode print('hello').
C9_RecoveredCodeField ==
  \A r \in Reqs :
    (pc[r] = "done" /\ GotText(r) /\ selectedMode[r] \in {"fix", "optimize"}
       /\ ~JsonParse(CleanedResponse(ReplyText(r))).ok) =>
      /\ Len(responses[r]) = 1
      /\ TheAnswer(r).status = 200
      /\ TheAnswer(r).data =
           Wrapped(KeyOfMode(selectedMode[r]), SpecifiedCode(ReplyText(r)))
      /\ (ReplyText(r) = ReplyFencedPython /\ selectedMode[r] = "fix") =>
           TheAnswer(r).data = Wrapped(FixedCodeKey, HelloCode)

\* C9 witness: the scenario reply was answered in fix mode with the code
\* of its block
C9_Witness ==
  \E r \in Reqs :
    /\ Answered(r) /\ GotText(r)
    /\ selectedMode[r] = "fix"
    /\ ReplyText(r) = ReplyFencedPython
    /\ TheAnswer(r).data = Wrapped(FixedCodeKey, HelloCode)

\* The responses the handler sends for a body and the outcome of its own
\* upstream call
OwnAnswers(b, o) ==
  IF ValidationError(b) # "" THEN << Answer400(ValidationError(b)) >>
  ELSE ResumeAnswers(o, SelectedMode(b.mode))

\* C8: with several requests in flight, the prompt sent for a request is
\* built from its own code, language and mode, and its responses are those
\* determined by its own body and its own upstream outcome.
C8_NoCrossRequestLeak ==
  \A r \in Reqs :
    /\ pc[r] \in {"await", "settled"} =>
         prompt[r] = BuildPrompt(body[r].code, body[r].language,
                                 SelectedMode(body[r].mode))
    /\ pc[r] = "done" =>
         /\ responses[r] = OwnAnswers(body[r], outcome[r])
         /\ TheAnswer(r).status = 200 =>
              TheAnswer(r).mode = SelectedMode(body[r].mode)

\* C8 witness: two requests with different modes were settled with
\* different replies, one answered while the other was still in flight
C8_Witness ==
  \E r, q \in Reqs :
    /\ r # q
    /\ Answered(r) /\ TheAnswer(r).status = 200
    /\ pc[q] = "settled"
    /\ selectedMode[r] # selectedMode[q]
    /\ GotText(r) /\ GotText(q)
    /\ ReplyText(r) # ReplyText(q)

\* C10: per request the events are at most one upstream call followed by
\* exactly one response: nothing follows a response, and a finished handler
\* has sent exactly one.
C10_OneCallThenOneResponse ==
  \A r \in Reqs :
    /\ log[r] \in {<< >>, << "call" >>, << "resp" >>, << "call", "resp" >>}
    /\ Len(responses[r]) <= 1
    /\ pc[r] = "done" <=> Len(responses[r]) = 1
    /\ pc[r] = "done" => log[r][Len(log[r])] = "resp"
    /\ pc[r] \in {"await", "settled"} => log[r] = << "call" >>

\* C10 witness: a request whose review reply did not parse has made one
\* call and received one response
C10_Witness ==
  \E r \in Reqs :
    /\ Answered(r) /\ GotText(r)
    /\ TheAnswer(r).status = 500
    /\ log[r] = << "call", "resp" >>
====
